---- MODULE Spec2Model ----
(***************************************************************************)
(* Model of custom_http: the mio reactor (src/io/nonblocking.rs), the      *)
(* thread pool (src/thread_pool.rs) and the response builders              *)
(* (src/http/response.rs, src/main.rs) and the blocking server of          *)
(* src/main.rs.                                                            *)
(*                                                                         *)
(* Strings and byte vectors are sequences of byte values (ASCII codes).    *)
(* Four specifications share the variables: Spec (the reactor), SpecPool   *)
(* (the thread pool), SpecResp (the response builders) and SpecMain (the   *)
(* blocking server); each leaves the variables of the others at their      *)
(* initial values.                                                         *)
(***************************************************************************)
EXTENDS Integers, Sequences, FiniteSets, TLC

VARIABLES
    \* ---- reactor (nonblocking.rs) ----
    conns,      \* Reactor.conns: the slab, as the sequence of its entries (key k is conns[k+1])
    reg,        \* the poller's registry: token -> set of registered interests ({} = not registered)
    pending,    \* connections waiting in the listener's accept backlog
    arrived,    \* connections that ever arrived at the listener
    sent,       \* per slab entry: the bytes its socket accepted from write()
    peer,       \* per slab entry: the read side of its socket: "open", or how it
                \* ended, "eof" (the peer closed) or "error"
    loop,       \* "running" while event_loop loops, "returned" once it returned Err
    last,       \* the last reactor step: [kind, end], what was handled ("new",
                \* "accept", "conn", "poll") and how it ended ("ok", "accept_error",
                \* "register_failed", "conn_error", "reregister_failed", "poll_failed")
    \* ---- thread pool (thread_pool.rs) ----
    size,       \* the size the pool was created with
    sender,     \* ThreadPool.sender: "open" (Some) or "closed" (taken and dropped)
    queue,      \* the mpsc channel: jobs sent and not yet received
    kinds,      \* per submitted job: "ok" (the closure returns) or "panic" (it panics)
    holder,     \* the worker holding the receiver's mutex, or NoWorker
    poisoned,   \* the mutex was poisoned by a panic under its guard
    wpc,        \* per worker thread: "lock", "recv", "job", "exited", "panicked"
    cur,        \* per worker: the job it is running (NoJob if none)
    executing,  \* the jobs being executed right now
    starts,     \* per job: how many times a worker received it
    runs,       \* per job: how many times it ran to completion
    pstate,     \* the pool's owner: "alive", "joining", "dropped",
                \* "execute_panicked", "join_panicked"
    joinIdx,    \* drop: index of the next worker to join
    \* ---- response builders (response.rs, main.rs) ----
    hreq,       \* the request line handed to the builder
    hfs,        \* the file system: file name -> [kind, bytes]
    hout,       \* what was built: [by, panic, wire, reads]
    \* ---- blocking server (main.rs) ----
    mloop,      \* main's accept loop: "running", or "panicked" (the process died)
    mlast,      \* how the last connection ended: "none", "served", or where the
                \* panic was: "accept", "request_line", "read_file", "write"
    mserved     \* the responses written, one per connection served

rvars == <<conns, reg, pending, arrived, sent, peer, loop, last>>

pvars == <<size, sender, queue, kinds, holder, poisoned, wpc, cur, executing,
           starts, runs, pstate, joinIdx>>

hvars == <<hreq, hfs, hout>>

mvars == <<mloop, mlast, mserved>>

vars == <<conns, reg, pending, arrived, sent, peer, loop, last,
          size, sender, queue, kinds, holder, poisoned, wpc, cur, executing,
          starts, runs, pstate, joinIdx, hreq, hfs, hout,
          mloop, mlast, mserved>>

----------------------------------------------------------------------------
(* Bounds *)

MaxConns == 2       \* connections that ever arrive at the listener
MaxReadBuf == 3     \* bytes a read buffer may hold
WriteGrain == 50    \* a partial write accepts a multiple of this many bytes
MaxSize == 2        \* largest pool size tried
MaxJobs == 3        \* jobs ever submitted to a pool
MaxMainConns == 3   \* connections the blocking server ever serves

----------------------------------------------------------------------------
(* Byte strings *)

\* "\r\n"
CRLF ==
    <<13, 10>>
\* "Content-Length: "
ContentLengthLabel ==
    <<67, 111, 110, 116, 101, 110, 116, 45, 76, 101, 110, 103, 116, 104, 58, 32>>
\* "Content-Type: "
ContentTypeLabel ==
    <<67, 111, 110, 116, 101, 110, 116, 45, 84, 121, 112, 101, 58, 32>>
\* "HTTP/1.1 200 OK"
Status200 ==
    <<72, 84, 84, 80, 47, 49, 46, 49, 32, 50, 48, 48, 32, 79, 75>>
\* "Hello from mio\r\n"
HelloBody ==
    <<72, 101, 108, 108, 111, 32, 102, 114, 111, 109, 32, 109, 105, 111, 13, 10>>
\* "text/plain"
TextPlain ==
    <<116, 101, 120, 116, 47, 112, 108, 97, 105, 110>>

\* "HTTP/1.1 404 NOT FOUND"
Status404 ==
    <<72, 84, 84, 80, 47, 49, 46, 49, 32, 52, 48, 52, 32, 78, 79, 84, 32, 70, 79, 85, 78, 68>>
\* "HTTP/1.1 404"
Status404Short ==
    <<72, 84, 84, 80, 47, 49, 46, 49, 32, 52, 48, 52>>
\* "HTTP/1.1 403 PERMISSION DENIED"
Status403 ==
    <<72, 84, 84, 80, 47, 49, 46, 49, 32, 52, 48, 51, 32, 80, 69, 82, 77, 73, 83, 83, 73, 79, 78, 32, 68, 69, 78, 73, 69, 68>>
\* "HTTP/1.1 500 INTERNAL SERVER ERROR"
Status500 ==
    <<72, 84, 84, 80, 47, 49, 46, 49, 32, 53, 48, 48, 32, 73, 78, 84, 69, 82, 78, 65, 76, 32, 83, 69, 82, 86, 69, 82, 32, 69, 82, 82, 79, 82>>
\* "text/html"
TextHtml ==
    <<116, 101, 120, 116, 47, 104, 116, 109, 108>>
\* "image/png"
ImagePng ==
    <<105, 109, 97, 103, 101, 47, 112, 110, 103>>
\* "application/octet-stream"
OctetStream ==
    <<97, 112, 112, 108, 105, 99, 97, 116, 105, 111, 110, 47, 111, 99, 116, 101, 116, 45, 115, 116, 114, 101, 97, 109>>
\* "text/"
TextSlash ==
    <<116, 101, 120, 116, 47>>
\* "public"
Public ==
    <<112, 117, 98, 108, 105, 99>>
\* ".html"
DotHtml ==
    <<46, 104, 116, 109, 108>>
\* ".."
DotDot ==
    <<46, 46>>
\* "/"
Slash ==
    <<47>>
\* "html"
ExtHtml ==
    <<104, 116, 109, 108>>
\* "png"
ExtPng ==
    <<112, 110, 103>>
\* "public/welcome.html"
PublicWelcome ==
    <<112, 117, 98, 108, 105, 99, 47, 119, 101, 108, 99, 111, 109, 101, 46, 104, 116, 109, 108>>
\* "public/404.html"
Public404 ==
    <<112, 117, 98, 108, 105, 99, 47, 52, 48, 52, 46, 104, 116, 109, 108>>
\* "public/403.html"
Public403 ==
    <<112, 117, 98, 108, 105, 99, 47, 52, 48, 51, 46, 104, 116, 109, 108>>
\* "public/500.html"
Public500 ==
    <<112, 117, 98, 108, 105, 99, 47, 53, 48, 48, 46, 104, 116, 109, 108>>
\* "public/a.html"
PublicA ==
    <<112, 117, 98, 108, 105, 99, 47, 97, 46, 104, 116, 109, 108>>
\* "public/a.png"
PublicAPng ==
    <<112, 117, 98, 108, 105, 99, 47, 97, 46, 112, 110, 103>>
\* "public/../a.html"
PublicUpA ==
    <<112, 117, 98, 108, 105, 99, 47, 46, 46, 47, 97, 46, 104, 116, 109, 108>>
\* "welcome.html"
MainWelcome ==
    <<119, 101, 108, 99, 111, 109, 101, 46, 104, 116, 109, 108>>
\* "404.html"
Main404 ==
    <<52, 48, 52, 46, 104, 116, 109, 108>>
\* "GET / HTTP/1.1"
ReqRoot ==
    <<71, 69, 84, 32, 47, 32, 72, 84, 84, 80, 47, 49, 46, 49>>
\* "GET /a HTTP/1.1"
ReqA ==
    <<71, 69, 84, 32, 47, 97, 32, 72, 84, 84, 80, 47, 49, 46, 49>>
\* "GET /a.png HTTP/1.1"
ReqAPng ==
    <<71, 69, 84, 32, 47, 97, 46, 112, 110, 103, 32, 72, 84, 84, 80, 47, 49, 46, 49>>
\* "GET /b HTTP/1.1"
ReqB ==
    <<71, 69, 84, 32, 47, 98, 32, 72, 84, 84, 80, 47, 49, 46, 49>>
\* "GET /../a HTTP/1.1"
ReqUp ==
    <<71, 69, 84, 32, 47, 46, 46, 47, 97, 32, 72, 84, 84, 80, 47, 49, 46, 49>>
\* "GET /a..png HTTP/1.1"
ReqDots ==
    <<71, 69, 84, 32, 47, 97, 46, 46, 112, 110, 103, 32, 72, 84, 84, 80, 47, 49, 46, 49>>
\* "GET"
ReqBare ==
    <<71, 69, 84>>
\* "GET  /  HTTP/1.1"
ReqSpaces ==
    <<71, 69, 84, 32, 32, 47, 32, 32, 72, 84, 84, 80, 47, 49, 46, 49>>

\* usize -> decimal digits, as format!("{}") prints it
RECURSIVE Decimal(_)
Decimal(n) ==
    IF n < 10 THEN <<48 + n>> ELSE Decimal(n \div 10) \o <<48 + (n % 10)>>

----------------------------------------------------------------------------
(* Reactor: connection records and the poller *)

LISTENER == 0

\* Token(key + 1): 0 is reserved for LISTENER
TokenOf(key) == key + 1

\* Slab::vacant_entry().key(): no entry is ever removed, so the next vacant
\* key is the number of entries
VacantKey(slab) == Len(slab)

\* Slab::get_mut(idx) is Some exactly for the occupied keys
SlabHas(slab, idx) == idx + 1 \in DOMAIN slab

\* the Connection built by accept_ready
NewConnection ==
    [read_buffer |-> <<>>, write_buffer |-> <<>>,
     state |-> "ReadingHeader", keep_alive |-> FALSE]

\* Registry::register(stream, token, interest) on a socket not yet registered
Register(interest) == {interest}

\* reregister that adds the interest to the registered ones
ReregisterAdding(old, interest) == old \cup {interest}

\* Registry::reregister(stream, token, interest): the new interest replaces the old
Reregister(old, interest) == {interest}

\* the response handle_readable queues (its "TEMP TEST" block)
TempResponse ==
    Status200 \o CRLF \o ContentLengthLabel \o Decimal(Len(HelloBody)) \o CRLF
    \o ContentTypeLabel \o TextPlain \o CRLF \o CRLF \o HelloBody

\* handle_readable: the read loop appends `data` (all Ok(n) chunks) and ends
\* with `cause`: "wouldblock", "eof" (Ok(0)) or "error"; then the response is
\* queued when there is input and nothing is queued yet
HandleReadable(conn, data, cause) ==
    LET c1 == [conn EXCEPT
                 !.read_buffer = @ \o data,
                 !.state = IF cause \in {"eof", "error"} THEN "Closed" ELSE @]
    IN  IF c1.read_buffer # <<>> /\ c1.write_buffer = <<>>
        THEN [c1 EXCEPT !.write_buffer = TempResponse]
        ELSE c1

\* a write loop that clears the buffer after a write instead of draining the
\* bytes written
HandleWritableClearing(conn, n, cause) ==
    [conn EXCEPT
       !.write_buffer = IF n > 0 THEN <<>> ELSE @,
       !.state = IF cause \in {"zero", "error"} THEN "Closed" ELSE @]

\* handle_writable: the write loop drains `n` bytes in all (the sum of its
\* Ok(n) results) and ends with `cause`: "drained" (buffer empty),
\* "wouldblock", "zero" (Ok(0)) or "error"
HandleWritable(conn, n, cause) ==
    [conn EXCEPT
       !.write_buffer = SubSeq(@, n + 1, Len(@)),
       !.state = IF cause \in {"zero", "error"} THEN "Closed" ELSE @]

\* the ways the write loop can end on a buffer of length len after n bytes
WriteCauses(len, n) ==
    IF n = len THEN {"drained"} ELSE {"wouldblock", "zero", "error"}

\* byte counts a run of the write loop may drain from a buffer of length len
WriteSizes(len) ==
    {n \in 0..len : n = len \/ n % WriteGrain = 0}

\* what one readable event may deliver
ReadChunks ==
    {<<>>, <<71>>, <<71, 13, 10>>}

ReadCauses == {"wouldblock", "eof", "error"}

----------------------------------------------------------------------------
(* Reactor: initial state, after Reactor::new *)

RInit ==
    /\ conns = <<>>
    /\ reg = [t \in {LISTENER} |-> {"R"}]
    /\ pending = 0
    /\ arrived = 0
    /\ sent = <<>>
    /\ peer = <<>>
    /\ loop = "running"
    /\ last = [kind |-> "new", end |-> "ok"]

\* a client connects: the connection waits in the accept backlog
ClientConnect ==
    /\ arrived < MaxConns
    /\ pending' = pending + 1
    /\ arrived' = arrived + 1
    /\ UNCHANGED <<conns, reg, sent, peer, loop, last>>

\* accept_ready: the accept loop takes k connections from the backlog, inserts
\* and registers each, and ends with `end`:
\*   "wouldblock"      the backlog is empty: break, Ok(())
\*   "accept_error"    accept() failed otherwise: logged, break, Ok(())
\*   "register_failed" one more connection was accepted and inserted, but
\*                     register() failed: `?` returns the error
AcceptEnds == {"wouldblock", "accept_error", "register_failed"}

AcceptReady(k, end) ==
    /\ loop = "running"
    /\ "R" \in reg[LISTENER]
    /\ k \in 0..pending
    /\ end = "wouldblock" => k = pending
    /\ end = "register_failed" => k < pending
    /\ LET failed == end = "register_failed"
           taken == IF failed THEN k + 1 ELSE k
           first == VacantKey(conns)
           keys == first..(first + taken - 1)
       IN  /\ conns' = conns \o [i \in 1..taken |-> NewConnection]
           /\ sent' = sent \o [i \in 1..taken |-> <<>>]
           /\ peer' = peer \o [i \in 1..taken |-> "open"]
           /\ reg' = [t \in DOMAIN reg \cup {TokenOf(key) : key \in keys} |->
                        IF t \in DOMAIN reg THEN reg[t]
                        ELSE IF failed /\ t = TokenOf(first + k) THEN {}
                        ELSE Register("R")]
           /\ pending' = pending - taken
           /\ loop' = IF failed THEN "returned" ELSE "running"
           /\ last' = [kind |-> "accept",
                       end |-> IF end = "wouldblock" THEN "ok" ELSE end]
    /\ UNCHANGED arrived

\* handle_connection_event(token, event): `ev` is the readiness the event
\* reports; the socket's behaviour during the step is data/rcause for the
\* read loop, n/wcause for the write loop and reregOk for reregister().
\* A socket whose read side ended delivers no more data: its reads return
\* Ok(0) or an error.
HandleConnectionEvent(token, ev, data, rcause, n, wcause, reregOk) ==
    /\ loop = "running"
    /\ token # LISTENER
    /\ token \in DOMAIN reg
    /\ ev # {} /\ ev \subseteq reg[token]
    /\ LET idx == token - 1
       IN  /\ SlabHas(conns, idx)
           /\ LET c0 == conns[idx + 1]
                  doR == "R" \in ev
                  afterR == IF doR THEN HandleReadable(c0, data, rcause) ELSE c0
                  needRereg == doR /\ afterR.write_buffer # <<>>
                  failed == needRereg /\ ~reregOk
                  doW == ~failed /\ "W" \in ev
                  w1 == HandleWritable(afterR, n, wcause)
                  afterW == IF ~doW THEN afterR
                            ELSE IF w1.write_buffer = <<>>
                                 THEN [w1 EXCEPT !.state = "Closed"]
                                 ELSE w1
              IN  /\ doR => Len(c0.read_buffer) + Len(data) <= MaxReadBuf
                  /\ (doR /\ peer[idx + 1] # "open") =>
                        data = <<>> /\ rcause # "wouldblock"
                  /\ peer' = IF doR /\ rcause # "wouldblock"
                             THEN [peer EXCEPT ![idx + 1] = rcause]
                             ELSE peer
                  /\ ~doR => data = <<>> /\ rcause = "wouldblock"
                  /\ ~needRereg => reregOk
                  /\ IF doW
                     THEN /\ n \in WriteSizes(Len(afterR.write_buffer))
                          /\ wcause \in WriteCauses(Len(afterR.write_buffer), n)
                     ELSE n = 0 /\ wcause = "wouldblock"
                  /\ conns' = [conns EXCEPT ![idx + 1] = afterW]
                  /\ reg' = IF needRereg /\ reregOk
                            THEN [reg EXCEPT ![token] = Reregister(@, "W")]
                            ELSE reg
                  /\ sent' = IF doW
                             THEN [sent EXCEPT ![idx + 1] =
                                     @ \o SubSeq(afterR.write_buffer, 1, n)]
                             ELSE sent
                  /\ loop' = IF failed THEN "returned" ELSE "running"
                  /\ last' = [kind |-> "conn",
                              end |-> IF failed THEN "reregister_failed"
                                      ELSE IF \/ doR /\ rcause # "wouldblock"
                                              \/ doW /\ wcause \in {"zero", "error"}
                                           THEN "conn_error"
                                      ELSE "ok"]
    /\ UNCHANGED <<pending, arrived>>

\* Poll::poll fails: `?` makes event_loop return the error
PollFails ==
    /\ loop = "running"
    /\ loop' = "returned"
    /\ last' = [kind |-> "poll", end |-> "poll_failed"]
    /\ UNCHANGED <<conns, reg, pending, arrived, sent, peer>>

Accept == \E k \in 0..MaxConns, end \in AcceptEnds : AcceptReady(k, end)

ConnEventOn(token) ==
    \E ev \in (SUBSET reg[token]) \ {{}} :
      \E data \in (IF "R" \in ev THEN ReadChunks ELSE {<<>>}),
         rcause \in (IF "R" \in ev THEN ReadCauses ELSE {"wouldblock"}),
         reregOk \in BOOLEAN :
        LET c0 == conns[token]
            len == IF "R" \in ev
                   THEN Len(HandleReadable(c0, data, rcause).write_buffer)
                   ELSE Len(c0.write_buffer)
        IN  \E n \in (IF "W" \in ev THEN WriteSizes(len) ELSE {0}) :
              \E wcause \in (IF "W" \in ev THEN WriteCauses(len, n)
                              ELSE {"wouldblock"}) :
                HandleConnectionEvent(token, ev, data, rcause, n, wcause, reregOk)

ConnEvent == \E token \in 1..Len(conns) : ConnEventOn(token)

RNext ==
    \/ ClientConnect
    \/ Accept
    \/ ConnEvent
    \/ PollFails

----------------------------------------------------------------------------
(* Thread pool *)

NoWorker == -1
NoJob == 0

\* `for id in 0..size`: the ids of the workers ThreadPool::new spawns
WorkerIds(n) == 0..(n - 1)

\* a worker thread that has ended dropped its Arc of the receiver
Ended(pc) == pc \in {"exited", "panicked"}

\* the Receiver lives as long as one worker thread holds its Arc
ReceiverAlive == \E w \in DOMAIN wpc : ~Ended(wpc[w])

\* ThreadPool::new(n): assert!(n > 0), the channel, n workers at the top of
\* their loop
PoolNew(n) ==
    /\ n > 0
    /\ size = n
    /\ sender = "open"
    /\ queue = <<>>
    /\ kinds = <<>>
    /\ holder = NoWorker
    /\ poisoned = FALSE
    /\ wpc = [w \in WorkerIds(n) |-> "lock"]
    /\ cur = [w \in WorkerIds(n) |-> NoJob]
    /\ executing = {}
    /\ starts = <<>>
    /\ runs = <<>>
    /\ pstate = "alive"
    /\ joinIdx = 0

\* ThreadPool::execute: sender.as_ref().unwrap().send(job).unwrap(); send
\* never blocks (mpsc::channel is unbounded) and fails only when the receiver
\* is gone, and then the unwrap panics
Execute(kind) ==
    /\ pstate = "alive"
    /\ Len(kinds) < MaxJobs
    /\ IF ReceiverAlive
       THEN /\ kinds' = Append(kinds, kind)
            /\ starts' = Append(starts, 0)
            /\ runs' = Append(runs, 0)
            /\ queue' = Append(queue, Len(kinds) + 1)
            /\ UNCHANGED pstate
       ELSE /\ pstate' = "execute_panicked"
            /\ UNCHANGED <<kinds, starts, runs, queue>>
    /\ UNCHANGED <<size, sender, holder, poisoned, wpc, cur, executing, joinIdx>>

\* worker loop, receiver.lock().unwrap(): blocks until the mutex is free; on
\* a poisoned mutex lock() returns Err and the unwrap panics (the guard inside
\* the error is dropped, so the mutex is free again)
WorkerLock(w) ==
    /\ wpc[w] = "lock"
    /\ holder = NoWorker
    /\ IF poisoned
       THEN wpc' = [wpc EXCEPT ![w] = "panicked"] /\ UNCHANGED holder
       ELSE wpc' = [wpc EXCEPT ![w] = "recv"] /\ holder' = w
    /\ UNCHANGED <<size, sender, queue, kinds, poisoned, cur, executing,
                   starts, runs, pstate, joinIdx>>

\* a worker that hands the received job to a detached thread and goes back
\* to the top of its loop
WorkerRecvJobDetached(w) ==
    /\ wpc[w] = "recv"
    /\ queue # <<>>
    /\ queue' = Tail(queue)
    /\ executing' = executing \cup {Head(queue)}
    /\ starts' = [starts EXCEPT ![Head(queue)] = @ + 1]
    /\ holder' = NoWorker
    /\ wpc' = [wpc EXCEPT ![w] = "lock"]
    /\ UNCHANGED <<size, sender, kinds, poisoned, cur, runs, pstate, joinIdx>>

\* worker loop, .recv() returns Ok(job): the job starts; the MutexGuard is a
\* temporary of the match scrutinee, so it lives until the match ends
WorkerRecvJob(w) ==
    /\ wpc[w] = "recv"
    /\ queue # <<>>
    /\ LET job == Head(queue)
       IN  /\ queue' = Tail(queue)
           /\ cur' = [cur EXCEPT ![w] = job]
           /\ executing' = executing \cup {job}
           /\ starts' = [starts EXCEPT ![job] = @ + 1]
    /\ wpc' = [wpc EXCEPT ![w] = "job"]
    /\ UNCHANGED <<size, sender, kinds, holder, poisoned, runs, pstate, joinIdx>>

\* worker loop, .recv() returns Err: the channel is empty and the sender is
\* dropped; the guard is released and the loop breaks
WorkerRecvErr(w) ==
    /\ wpc[w] = "recv"
    /\ queue = <<>>
    /\ sender = "closed"
    /\ wpc' = [wpc EXCEPT ![w] = "exited"]
    /\ holder' = NoWorker
    /\ UNCHANGED <<size, sender, queue, kinds, poisoned, cur, executing,
                   starts, runs, pstate, joinIdx>>

\* job() returns: the match ends, the guard is dropped, the loop goes on
JobReturns(w) ==
    /\ wpc[w] = "job"
    /\ kinds[cur[w]] = "ok"
    /\ runs' = [runs EXCEPT ![cur[w]] = @ + 1]
    /\ executing' = executing \ {cur[w]}
    /\ cur' = [cur EXCEPT ![w] = NoJob]
    /\ holder' = NoWorker
    /\ wpc' = [wpc EXCEPT ![w] = "lock"]
    /\ UNCHANGED <<size, sender, queue, kinds, poisoned, starts, pstate, joinIdx>>

\* job() panics: the thread unwinds, dropping the guard while panicking, which
\* poisons the mutex
JobPanics(w) ==
    /\ wpc[w] = "job"
    /\ kinds[cur[w]] = "panic"
    /\ executing' = executing \ {cur[w]}
    /\ cur' = [cur EXCEPT ![w] = NoJob]
    /\ holder' = NoWorker
    /\ poisoned' = TRUE
    /\ wpc' = [wpc EXCEPT ![w] = "panicked"]
    /\ UNCHANGED <<size, sender, queue, kinds, starts, runs, pstate, joinIdx>>

\* Drop for ThreadPool, drop(self.sender.take()): the channel is closed
DropSender ==
    /\ pstate = "alive"
    /\ sender' = "closed"
    /\ pstate' = "joining"
    /\ joinIdx' = 0
    /\ UNCHANGED <<size, queue, kinds, holder, poisoned, wpc, cur, executing,
                   starts, runs>>

\* Drop for ThreadPool, thread.join().unwrap() on the next worker: returns
\* once that thread has ended; join() is Err for a thread that panicked and
\* the unwrap panics
JoinWorker ==
    /\ pstate = "joining"
    /\ joinIdx < size
    /\ Ended(wpc[joinIdx])
    /\ IF wpc[joinIdx] = "panicked"
       THEN pstate' = "join_panicked" /\ UNCHANGED joinIdx
       ELSE /\ joinIdx' = joinIdx + 1
            /\ pstate' = IF joinIdx + 1 = size THEN "dropped" ELSE "joining"
    /\ UNCHANGED <<size, sender, queue, kinds, holder, poisoned, wpc, cur,
                   executing, starts, runs>>

Submit == \E kind \in {"ok", "panic"} : Execute(kind)
Lock == \E w \in DOMAIN wpc : WorkerLock(w)
RecvJob == \E w \in DOMAIN wpc : WorkerRecvJob(w)
RecvErr == \E w \in DOMAIN wpc : WorkerRecvErr(w)
Return == \E w \in DOMAIN wpc : JobReturns(w)
Panic == \E w \in DOMAIN wpc : JobPanics(w)

PNext ==
    \/ Submit
    \/ Lock
    \/ RecvJob
    \/ RecvErr
    \/ Return
    \/ Panic
    \/ DropSender
    \/ JoinWorker

\* the pool the reactor owns: Reactor::new calls ThreadPool::new(4) and the
\* reactor never submits a job to it
ReactorPoolSize == 4

----------------------------------------------------------------------------
(* Strings, paths and the file system *)

\* the first index at which pat occurs in s, 0 if none
IndexOf(s, pat) ==
    LET at == {i \in 1..(Len(s) - Len(pat) + 1) :
                 SubSeq(s, i, i + Len(pat) - 1) = pat}
    IN  IF at = {} THEN 0 ELSE CHOOSE i \in at : \A j \in at : i <= j

\* str::starts_with
StartsWith(s, pat) == Len(s) >= Len(pat) /\ SubSeq(s, 1, Len(pat)) = pat

\* str::contains
Contains(s, pat) == IndexOf(s, pat) # 0

\* char::is_whitespace on the ASCII range
IsSpace(b) == b = 32 \/ (9 <= b /\ b <= 13)

\* str::split_whitespace: the maximal runs of non-whitespace bytes
RECURSIVE SplitWhitespace(_)
SplitWhitespace(s) ==
    IF s = <<>> THEN <<>>
    ELSE IF IsSpace(Head(s)) THEN SplitWhitespace(Tail(s))
    ELSE LET stops == {i \in 1..Len(s) : IsSpace(s[i])}
             stop == IF stops = {} THEN Len(s) + 1
                     ELSE CHOOSE i \in stops : \A j \in stops : i <= j
         IN  <<SubSeq(s, 1, stop - 1)>> \o SplitWhitespace(SubSeq(s, stop, Len(s)))

\* Path::file_name for a path that does not end in "/" or "..": the part
\* after the last "/"
FileName(path) ==
    LET cuts == {i \in 1..Len(path) : path[i] = 47}
        cut == IF cuts = {} THEN 0 ELSE CHOOSE i \in cuts : \A j \in cuts : j <= i
    IN  SubSeq(path, cut + 1, Len(path))

\* Path::extension: the part of the file name after its last ".", none when
\* the name has no "." or only a leading one
Extension(path) ==
    LET name == FileName(path)
        dots == {i \in 1..Len(name) : name[i] = 46}
        dot == IF dots = {} THEN 0 ELSE CHOOSE i \in dots : \A j \in dots : j <= i
    IN  IF dot <= 1 THEN [some |-> FALSE, ext |-> <<>>]
        ELSE [some |-> TRUE, ext |-> SubSeq(name, dot + 1, Len(name))]

\* mime_guess::from_path(path).first_or_octet_stream(), for the extensions
\* of the files served here
MimeOf(path) ==
    LET e == Extension(path)
    IN  IF e.some /\ e.ext = ExtHtml THEN TextHtml
        ELSE IF e.some /\ e.ext = ExtPng THEN ImagePng
        ELSE OctetStream

\* mime.type_() == mime::TEXT
IsText(mime) == Len(mime) >= 5 /\ SubSeq(mime, 1, 5) = TextSlash

\* String::from_utf8 is Ok: every byte is ASCII or a two-byte sequence (a
\* lead byte C2..DF and one continuation byte 80..BF); the file bytes used
\* here have no longer sequences
RECURSIVE Utf8Valid(_)
Utf8Valid(bytes) ==
    IF bytes = <<>> THEN TRUE
    ELSE IF bytes[1] < 128 THEN Utf8Valid(Tail(bytes))
    ELSE IF /\ 194 <= bytes[1] /\ bytes[1] <= 223
            /\ Len(bytes) >= 2
            /\ 128 <= bytes[2] /\ bytes[2] <= 191
         THEN Utf8Valid(SubSeq(bytes, 3, Len(bytes)))
    ELSE FALSE

\* the files the builders can name
KnownFiles ==
    {PublicWelcome, Public404, Public403, Public500, PublicA, PublicAPng,
     PublicUpA, MainWelcome, Main404}

FsKind(fs, name) == IF name \in DOMAIN fs THEN fs[name].kind ELSE "missing"

\* Path::exists
Exists(fs, name) == FsKind(fs, name) # "missing"

\* io::file::read_file_bytes / fs::read: Ok(bytes) for a readable file
ReadOk(fs, name) == FsKind(fs, name) = "file"

----------------------------------------------------------------------------
(* response.rs *)

\* status_filename
StatusFilename(response, fs) ==
    LET parts == SplitWhitespace(response)
    IN  IF Len(parts) < 2
        THEN [status |-> Status404Short, filename |-> Public404]
        ELSE LET path == parts[2]
             IN  IF Contains(path, DotDot)
                 THEN [status |-> Status403, filename |-> Public403]
                 ELSE IF path = Slash
                 THEN [status |-> Status200, filename |-> PublicWelcome]
                 ELSE LET p1 == Public \o path
                          p2 == IF Extension(p1).some THEN p1 ELSE p1 \o DotHtml
                      IN  IF ~Exists(fs, p2)
                          THEN [status |-> Status404, filename |-> Public404]
                          ELSE [status |-> Status200, filename |-> p2]

\* create_http_response: the HttpResponse, the files it read, and whether the
\* unwrap on reading the 500 page panicked
CreateHttpResponse(response, fs) ==
    LET sf == StatusFilename(response, fs)
        ok == ReadOk(fs, sf.filename)
        status == IF ok THEN sf.status ELSE Status500
        filename == IF ok THEN sf.filename ELSE Public500
        mime == MimeOf(filename)
        panic == ~ok /\ ~ReadOk(fs, Public500)
        bytes == IF panic THEN <<>> ELSE fs[filename].bytes
        body == IF IsText(mime) /\ Utf8Valid(bytes)
                THEN [type |-> "Text", bytes |-> bytes]
                ELSE [type |-> "Binary", bytes |-> bytes]
    IN  [panic |-> panic,
         reads |-> IF ok THEN <<sf.filename>> ELSE <<sf.filename, Public500>>,
         status |-> status, content_type |-> mime, body |-> body]

\* text.chars().count() for a text body: the number of characters
BodyLengthChars(body) ==
    IF body.type = "Text"
    THEN Cardinality({i \in 1..Len(body.bytes) :
                        body.bytes[i] < 128 \/ body.bytes[i] > 191})
    ELSE Len(body.bytes)

\* text.len() / binary.len(): the number of bytes of the body
BodyLength(body) == Len(body.bytes)

\* build_response
BuildResponse(http_response) ==
    LET length == BodyLength(http_response.body)
        header == http_response.status \o CRLF
                  \o ContentLengthLabel \o Decimal(length) \o CRLF
                  \o ContentTypeLabel \o http_response.content_type \o CRLF \o CRLF
    IN  header \o http_response.body.bytes

\* http_handler
HttpHandler(response, fs) ==
    LET r == CreateHttpResponse(response, fs)
    IN  [by |-> "http_handler", panic |-> r.panic, reads |-> r.reads,
         wire |-> IF r.panic THEN <<>> ELSE BuildResponse(r)]

----------------------------------------------------------------------------
(* main.rs *)

\* http_handler of main.rs
MainHttpHandler(request_line) ==
    IF request_line = ReqRoot
    THEN [status |-> Status200, filename |-> MainWelcome]
    ELSE [status |-> Status404, filename |-> Main404]

\* handle_connection, from the request line on: fs::read_to_string panics the
\* thread when the file cannot be read or is not UTF-8; html_page.len() is the
\* number of bytes of the String
MainHandleConnection(request_line, fs) ==
    LET sf == MainHttpHandler(request_line)
        ok == ReadOk(fs, sf.filename) /\ Utf8Valid(fs[sf.filename].bytes)
        html_page == IF ok THEN fs[sf.filename].bytes ELSE <<>>
        length == Len(html_page)
    IN  [by |-> "main", panic |-> ~ok, reads |-> <<sf.filename>>,
         wire |-> IF ~ok THEN <<>>
                  ELSE sf.status \o CRLF \o ContentLengthLabel \o Decimal(length)
                       \o CRLF \o CRLF \o html_page]

\* handle_connection's `buffer.lines().next().unwrap().unwrap()` on what the
\* socket delivers, d.bytes and then d.end ("eof" or "error"): read_line
\* reads up to and including the first "\n"; a read error before it is
\* Some(Err); no byte at all before the end of the stream is None; bytes that
\* are not UTF-8 are Some(Err); else the line, without its "\n" and without a
\* "\r" before that "\n".  Each unwrap panics on None or Err.
MainRequestLine(d) ==
    LET lf == IndexOf(d.bytes, <<10>>)
        raw == IF lf # 0 THEN SubSeq(d.bytes, 1, lf) ELSE d.bytes
        cut == IF lf = 0 THEN Len(raw)
               ELSE IF lf >= 2 /\ raw[lf - 1] = 13 THEN lf - 2
               ELSE lf - 1
    IN  IF lf = 0 /\ d.end = "error" THEN [kind |-> "err", line |-> <<>>]
        ELSE IF raw = <<>> THEN [kind |-> "none", line |-> <<>>]
        ELSE IF ~Utf8Valid(raw) THEN [kind |-> "err", line |-> <<>>]
        ELSE [kind |-> "line", line |-> SubSeq(raw, 1, cut)]

----------------------------------------------------------------------------
(* The response builders applied to bounded inputs *)

Requests ==
    {ReqRoot, ReqA, ReqAPng, ReqB, ReqUp, ReqDots, ReqBare, ReqSpaces}

\* file contents: empty, ASCII, a two-byte UTF-8 character, a lone lead byte
\* (not UTF-8), mixed, and one of LongLen bytes
LongLen == 12

Contents ==
    {<<>>, <<97>>, <<195, 169>>, <<195>>, <<97, 195, 169>>,
     [i \in 1..LongLen |-> 97]}

FsEntries ==
    {[kind |-> "missing", bytes |-> <<>>], [kind |-> "unreadable", bytes |-> <<>>]}
    \cup {[kind |-> "file", bytes |-> b] : b \in Contents}

\* every known file present, each holding its own name as content
BaseFs ==
    [f \in KnownFiles |-> [kind |-> "file", bytes |-> f]]

NoOutput == [by |-> "none", panic |-> FALSE, reads |-> <<>>, wire |-> <<>>]

HIdle ==
    /\ hreq = <<>>
    /\ hfs = BaseFs
    /\ hout = NoOutput

\* the inputs: a request line, and a file system that differs from BaseFs in
\* one arbitrary entry and at most one more missing file
HInit ==
    /\ hreq \in Requests
    /\ \E f1 \in KnownFiles, e1 \in FsEntries, f2 \in KnownFiles, gone \in BOOLEAN :
         hfs = [f \in KnownFiles |->
                  IF gone /\ f = f2 THEN [kind |-> "missing", bytes |-> <<>>]
                  ELSE IF f = f1 THEN e1
                  ELSE BaseFs[f]]
    /\ hout = NoOutput

\* response.rs serves the request
RespHttpHandler ==
    /\ hout.by = "none"
    /\ hout' = HttpHandler(hreq, hfs)
    /\ UNCHANGED <<hreq, hfs>>

\* main.rs serves the request
RespMain ==
    /\ hout.by = "none"
    /\ hout' = MainHandleConnection(hreq, hfs)
    /\ UNCHANGED <<hreq, hfs>>

\* the reactor serves it: what handle_readable queues on a fresh connection
\* that received the request
RespReactor ==
    /\ hout.by = "none"
    /\ hout' = [by |-> "reactor", panic |-> FALSE, reads |-> <<>>,
                wire |-> HandleReadable(NewConnection, hreq, "wouldblock").write_buffer]
    /\ UNCHANGED <<hreq, hfs>>

HNext ==
    \/ RespHttpHandler
    \/ RespMain
    \/ RespReactor

----------------------------------------------------------------------------
(* The blocking server of main.rs *)

\* what a client delivers before the stream ends: a request line with
\* "\r\n", with "\n", without a line end, nothing, a single byte, and a
\* line that is not UTF-8
MainInputs ==
    {ReqRoot \o CRLF, ReqB \o CRLF, ReqRoot \o <<10>>, ReqRoot, <<>>, <<71>>,
     <<195, 10>>}

MainDeliveries == [bytes : MainInputs, end : {"eof", "error"}]

MIdle ==
    /\ mloop = "running"
    /\ mlast = "none"
    /\ mserved = <<>>

\* the file system of the blocking server: welcome.html and 404.html are
\* arbitrary entries
MInit ==
    /\ hreq = <<>>
    /\ hout = NoOutput
    /\ \E e1 \in FsEntries, e2 \in FsEntries :
         hfs = [BaseFs EXCEPT ![MainWelcome] = e1, ![Main404] = e2]
    /\ MIdle

\* one turn of main's `for stream in listener.incoming()`: stream.unwrap(),
\* then handle_connection on the main thread; every panic in it unwinds out
\* of main and ends the process
MainIncoming ==
    /\ mloop = "running"
    /\ Len(mserved) < MaxMainConns
    /\ \E accepted \in BOOLEAN, d \in MainDeliveries, written \in BOOLEAN :
         LET rl == MainRequestLine(d)
             out == MainHandleConnection(rl.line, hfs)
             end == IF ~accepted THEN "accept"
                    ELSE IF rl.kind # "line" THEN "request_line"
                    ELSE IF out.panic THEN "read_file"
                    ELSE IF ~written THEN "write"
                    ELSE "served"
         IN  /\ mlast' = end
             /\ mloop' = IF end = "served" THEN "running" ELSE "panicked"
             /\ mserved' = IF end = "served" THEN Append(mserved, out.wire)
                           ELSE mserved
    /\ UNCHANGED hvars

MNext == MainIncoming

----------------------------------------------------------------------------
(* Properties of the reactor *)

\* C1: between handler steps no connection whose state is Closed is still in
\* the connection table or still registered with the poller.
C1_ClosedIsRemoved ==
    \A idx \in 0..(Len(conns) - 1) :
        SlabHas(conns, idx) /\ conns[idx + 1].state = "Closed" => FALSE

\* C2: every connection in the table is registered for at most one readiness
\* interest, readable or writable, never both.
C2_OneInterest ==
    \A token \in DOMAIN reg \ {LISTENER} : Cardinality(reg[token]) <= 1

\* a response was queued on a connection and its registration was replaced
\* by WRITABLE
C2_Witness ==
    \E token \in DOMAIN reg \ {LISTENER} :
        /\ reg[token] = {"W"}
        /\ conns[token].write_buffer # <<>>

\* C3: an event carrying the token of a connection that was closed is a
\* no-op: it changes neither the record, nor the registration, nor what was
\* written to the socket under that token.
C3_StaleTokenIsNoOp ==
    [][\A token \in 1..Len(conns) :
          conns[token].state = "Closed" =>
              /\ conns'[token] = conns[token]
              /\ reg'[token] = reg[token]
              /\ sent'[token] = sent[token]]_vars

\* C8: a handler step in which a connection met an error (read or write
\* error, zero-length read or write, failed reregister) leaves the event loop
\* running and leaves every other connection as it was.
C8_ConnErrorsContained ==
    [][\A token \in 1..Len(conns) :
          (ConnEventOn(token) /\ last'.end # "ok") =>
              /\ loop' = "running"
              /\ \A other \in 1..Len(conns) :
                    other # token =>
                        /\ conns'[other] = conns[other]
                        /\ reg'[other] = reg[other]
                        /\ sent'[other] = sent[other]
                        /\ peer'[other] = peer[other]]_vars

\* C9: after an accept_ready that met a failure (an accept error other than
\* would-block, or a failed register of the accepted socket) the event loop is
\* still running.
C9_AcceptFailureContinues ==
    (last.kind = "accept" /\ last.end # "ok") => loop = "running"

\* C13: Closed is terminal: a step leaves a Closed connection's record,
\* registration and socket untouched, and a readable event that ends with a
\* zero-length read closes the connection without queuing a response or
\* changing its registration.
C13_ClosedIsTerminal ==
    [][\A token \in 1..Len(conns) :
          /\ conns[token].state = "Closed" =>
                /\ conns'[token] = conns[token]
                /\ reg'[token] = reg[token]
                /\ sent'[token] = sent[token]
                /\ peer'[token] = peer[token]
          /\ (/\ conns[token].state # "Closed"
              /\ conns'[token].state = "Closed"
              /\ peer[token] = "open"
              /\ peer'[token] = "eof") =>
                /\ conns'[token].write_buffer = conns[token].write_buffer
                /\ reg'[token] = reg[token]]_vars

\* C14: while the read buffer holds no complete CRLF-terminated request line,
\* no response bytes are queued or written and the connection is not
\* registered writable.
C14_NoResponseBeforeRequestLine ==
    \A token \in 1..Len(conns) :
        IndexOf(conns[token].read_buffer, CRLF) = 0 =>
            /\ conns[token].write_buffer = <<>>
            /\ sent[token] = <<>>
            /\ "W" \notin reg[token]

\* C15: a connection has response bytes (queued or written) only after a job
\* of the reactor's pool ran: the reactor thread does not build them.
C15_ResponseOnlyFromJob ==
    \A token \in 1..Len(conns) :
        (conns[token].write_buffer # <<>> \/ sent[token] # <<>>) =>
            \E job \in DOMAIN runs : runs[job] >= 1

\* C18: the bytes handed to a connection's socket, followed by the bytes
\* still in its write buffer, are the response that was loaded: no gap, no
\* duplication, no reordering; a connection with part of its response
\* written is registered writable, waiting for the next writable event.
C18_SentThenBufferIsResponse ==
    \A token \in 1..Len(conns) :
        /\ (conns[token].write_buffer # <<>> \/ sent[token] # <<>>) =>
              sent[token] \o conns[token].write_buffer = TempResponse
        /\ (conns[token].write_buffer # <<>> /\ sent[token] # <<>>) =>
              reg[token] = {"W"}

\* a partial write happened: part of the response is written, the rest is
\* still in the write buffer
C18_Witness ==
    \E token \in 1..Len(conns) :
        conns[token].write_buffer # <<>> /\ sent[token] # <<>>

\* C19: a connection whose response is queued, that is registered writable
\* and met no I/O error, is still served: the event loop has not returned
\* (a failure of poll itself aside), so its writable events are handled.
C19_QueuedResponseIsServed ==
    \A token \in 1..Len(conns) :
        (/\ conns[token].write_buffer # <<>>
         /\ conns[token].state # "Closed"
         /\ reg[token] = {"W"}
         /\ last.kind # "poll") =>
            loop = "running"

\* C20: when accept_ready returns, the backlog is empty and every connection
\* it took is in the table with empty buffers, registered readable under a
\* token of its own, different from LISTENER and from every earlier token.
C20_AcceptDrainsBacklog ==
    [][Accept =>
          /\ pending' = 0
          /\ Len(conns') = Len(conns) + pending
          /\ \A key \in Len(conns)..(Len(conns') - 1) :
                /\ conns'[key + 1].read_buffer = <<>>
                /\ conns'[key + 1].write_buffer = <<>>
                /\ TokenOf(key) # LISTENER
                /\ TokenOf(key) \notin DOMAIN reg
                /\ reg'[TokenOf(key)] = {"R"}]_vars

\* the interests a connection's token is registered with
InterestOf(token) == IF token \in DOMAIN reg THEN reg[token] ELSE {}

\* C21: a connection's state field agrees with its registered interest: it is
\* registered readable exactly when its state is the one awaiting the request
\* (ReadingHeader, ReadingBody), registered writable exactly when its state is
\* a writing one (WritingHeader, WritingBody), and has no interest in the
\* state where work is outstanding (ReadyToRespond).  Stated of the states
\* in which the event loop is running.
C21_StateAgreesWithInterest ==
    loop = "running" =>
        \A token \in 1..Len(conns) :
            /\ "R" \in InterestOf(token) <=>
                  conns[token].state \in {"ReadingHeader", "ReadingBody"}
            /\ "W" \in InterestOf(token) <=>
                  conns[token].state \in {"WritingHeader", "WritingBody"}
            /\ conns[token].state = "ReadyToRespond" => InterestOf(token) = {}

\* C23: whenever a response is queued in a connection's write buffer, its
\* read buffer has been cleared: it no longer holds the request's bytes.
C23_ReadBufferCleared ==
    \A token \in 1..Len(conns) :
        conns[token].write_buffer # <<>> => conns[token].read_buffer = <<>>

----------------------------------------------------------------------------
(* Properties of the thread pool *)

\* C4: the number of jobs being executed at the same instant never exceeds
\* the size the pool was created with.
C4_AtMostSizeExecuting == Cardinality(executing) <= size

\* a job is executing while another job waits in the queue and another
\* worker is idle
C4_Witness ==
    /\ executing # {}
    /\ queue # <<>>
    /\ \E w \in DOMAIN wpc : wpc[w] = "lock"

\* a capacity below the number of jobs submitted
JobQueueCapacity == MaxJobs - 1

\* C5: the number of jobs submitted and not yet taken by a worker never
\* exceeds the job-queue capacity.
C5_QueueBounded == Len(queue) <= JobQueueCapacity

AllWorkersEnded == \A w \in DOMAIN wpc : Ended(wpc[w])

\* C6: no job is received by two workers, and no submitted job is dropped:
\* once every worker thread has ended, every submitted job that does not
\* itself panic has run to completion exactly once.
C6_EveryJobRunsOnce ==
    /\ \A job \in DOMAIN starts : starts[job] <= 1
    /\ \A job \in DOMAIN runs : runs[job] <= 1
    /\ AllWorkersEnded =>
          \A job \in DOMAIN kinds : kinds[job] = "ok" => runs[job] = 1

\* C7: shutdown runs every queued job before the workers exit, and the join
\* of the workers returns: the joins never panic, and once the sender is
\* closed and every worker has ended no job is left in the queue.
C7_ShutdownDrainsAndJoins ==
    /\ pstate # "join_panicked"
    /\ (sender = "closed" /\ AllWorkersEnded) => queue = <<>>

\* C16: no lock shared between the workers is held while a job runs: a
\* worker that executes a job does not hold the receiver's mutex, so an idle
\* worker can take the next queued job.
C16_NoLockWhileJobRuns ==
    \A w \in DOMAIN wpc : wpc[w] = "job" => holder # w

\* C17: a job that panics takes down at most the worker that ran it: no other
\* worker thread panics, and no call of execute panics.
C17_JobPanicIsContained ==
    /\ pstate # "execute_panicked"
    /\ Cardinality({w \in DOMAIN wpc : wpc[w] = "panicked"})
         <= Cardinality({job \in DOMAIN kinds :
                           kinds[job] = "panic" /\ starts[job] >= 1})

----------------------------------------------------------------------------
(* Properties of the blocking server *)

\* C22: a connection that delivers no parseable request line (the client
\* closed without sending one, or a read error) or whose response file cannot
\* be read does not end the accept loop: after it the loop is still running.
C22_MainLoopSurvives ==
    mlast \in {"request_line", "read_file"} => mloop = "running"

----------------------------------------------------------------------------
(* Properties of the responses *)

\* the index of the blank line that ends the header (0 if none)
HeaderEnd(wire) == IndexOf(wire, CRLF \o CRLF)

\* the bytes after the blank line
BodyOf(wire) == SubSeq(wire, HeaderEnd(wire) + 4, Len(wire))

\* digits -> number, -1 if there is none
RECURSIVE ParseDecimal(_)
ParseDecimal(digits) ==
    IF digits = <<>> THEN -1
    ELSE LET d == digits[Len(digits)] - 48
             front == SubSeq(digits, 1, Len(digits) - 1)
         IN  IF d < 0 \/ d > 9 THEN -1
             ELSE IF front = <<>> THEN d
             ELSE IF ParseDecimal(front) < 0 THEN -1
             ELSE 10 * ParseDecimal(front) + d

\* the value of the Content-Length header line of the header, -1 if none
ContentLengthOf(wire) ==
    LET header == SubSeq(wire, 1, HeaderEnd(wire) + 1)
        at == IndexOf(header, CRLF \o ContentLengthLabel)
        from == at + Len(CRLF) + Len(ContentLengthLabel)
        rest == SubSeq(header, from, Len(header))
    IN  IF HeaderEnd(wire) = 0 \/ at = 0 THEN -1
        ELSE ParseDecimal(SubSeq(rest, 1, IndexOf(rest, CRLF) - 1))

\* C10: in every response produced, the value of the Content-Length header
\* equals the number of body bytes that follow the blank line.
C10_ContentLengthIsBodyLength ==
    (hout.by # "none" /\ ~hout.panic) =>
        ContentLengthOf(hout.wire) = Len(BodyOf(hout.wire))

\* response.rs built a response whose text body has a two-byte character
C10_Witness ==
    /\ hout.by = "http_handler"
    /\ ~hout.panic
    /\ BodyOf(hout.wire) = <<97, 195, 169>>

\* the status line of a response: the bytes before the first CRLF
StatusLineOf(wire) == SubSeq(wire, 1, IndexOf(wire, CRLF) - 1)

\* the request has a path (a second word), and it is `path`
RequestPathIs(req, path) ==
    Len(SplitWhitespace(req)) >= 2 /\ SplitWhitespace(req)[2] = path

\* the request has a path and ".." occurs in it
PathHasDotDot(req) ==
    Len(SplitWhitespace(req)) >= 2 /\ IndexOf(SplitWhitespace(req)[2], DotDot) # 0

\* the file names a request path names under the served root
NamedBy(req) ==
    LET path == SplitWhitespace(req)[2]
    IN  {path, Public \o path, Public \o path \o DotHtml}

\* the file lies in the served root "public/"
UnderRoot(name) ==
    /\ Len(name) > 7
    /\ SubSeq(name, 1, 7) = Public \o Slash
    /\ IndexOf(name, DotDot) = 0

\* C11: for a request whose path contains "..", the resolver's outcome is a
\* rejection page (403 or 404), the response never has the 200 status, and no
\* file that is read is named by the requested path or lies outside the
\* served root.
C11_DotDotIsRejected ==
    (hout.by = "http_handler" /\ PathHasDotDot(hreq)) =>
        /\ hout.reads[1] \in {Public403, Public404}
        /\ \A i \in DOMAIN hout.reads :
              UnderRoot(hout.reads[i]) /\ hout.reads[i] \notin NamedBy(hreq)
        /\ ~hout.panic => StatusLineOf(hout.wire) # Status200
        /\ ReadOk(hfs, hout.reads[1]) =>
              StatusLineOf(hout.wire) \in {Status403, Status404}

\* "GET /../a HTTP/1.1" was served while public/../a.html exists
C11_Witness ==
    /\ hout.by = "http_handler"
    /\ ~hout.panic
    /\ hreq = ReqUp
    /\ ReadOk(hfs, PublicUpA)

\* C12: a request whose path is "/" yields the 200 status line and the
\* welcome page as body (whenever the welcome page can be read).
C12_RootServesWelcome ==
    LET welcome == IF hout.by = "main" THEN MainWelcome ELSE PublicWelcome
    IN  (/\ hout.by # "none"
         /\ ~hout.panic
         /\ RequestPathIs(hreq, Slash)
         /\ ReadOk(hfs, welcome)) =>
            /\ StatusLineOf(hout.wire) = Status200
            /\ BodyOf(hout.wire) = hfs[welcome].bytes

----------------------------------------------------------------------------
(* Specifications *)

\* the reactor
Init == RInit /\ PoolNew(ReactorPoolSize) /\ HIdle /\ MIdle

Next == RNext /\ UNCHANGED <<pvars, hvars, mvars>>

Spec == Init /\ [][Next]_vars

\* the thread pool, for every size up to MaxSize
InitPool == RInit /\ HIdle /\ MIdle /\ \E n \in 1..MaxSize : PoolNew(n)

NextPool == PNext /\ UNCHANGED <<rvars, hvars, mvars>>

SpecPool == InitPool /\ [][NextPool]_vars

\* the response builders
InitResp == RInit /\ PoolNew(ReactorPoolSize) /\ HInit /\ MIdle

NextResp == HNext /\ UNCHANGED <<rvars, pvars, mvars>>

SpecResp == InitResp /\ [][NextResp]_vars

\* the blocking server
InitMain == RInit /\ PoolNew(ReactorPoolSize) /\ MInit

NextMain == MNext /\ UNCHANGED <<rvars, pvars>>

SpecMain == InitMain /\ [][NextMain]_vars

====
